---- MODULE Spec2Model ----
(***************************************************************************)
(* The in-memory shopping cart of Server/routes/cart.js.                   *)
(*                                                                         *)
(* The handlers run on the single JavaScript thread: a handler runs        *)
(* without interruption up to an `await` and from one `await` to the next. *)
(* The only awaits are the catalog lookups of POST /add and GET /, so each *)
(* of these two handlers is two kinds of step (begin, resume) and every    *)
(* other handler is one step.                                              *)
(*                                                                         *)
(* JavaScript objects are references.  The line objects live in `objs`     *)
(* and the item arrays in `arrs`; a cart holds the index of its array and  *)
(* an array holds the indices of its line objects, so that a handler that  *)
(* resumes after an await sees what the other handlers did to the objects  *)
(* it holds, exactly as the code does.                                     *)
(***************************************************************************)
EXTENDS Integers, Sequences, FiniteSets, TLC

\* ---------------------------------------------------------------- bounds
\* Number of requests the clients issue in one run.
MaxOps == 3
\* The clock (Date.now(), new Date()) runs from 0 to MaxClock milliseconds.
MaxClock == 1
\* Number of requests that may await a catalog lookup at the same time.
MaxPending == 2

\* ------------------------------------------------------- values and inputs
\* The JavaScript value undefined (an absent body field, an unset variant).
Undefined == "undefined"

\* The callers: req.user?.id and req.body.userId as the clients send them.
\* The first two are one identity, the third is the anonymous one.
MainCaller == <<"u1", Undefined>>
Callers == { MainCaller, <<Undefined, "u1">>, <<Undefined, Undefined>> }

\* (productId, size, color) of the add requests: the last three differ from
\* the first in exactly one component each.
Triples ==
    { <<"P1", Undefined, Undefined>>,
      <<"P1", "M", Undefined>>,
      <<"P1", Undefined, "red">>,
      <<"P2", Undefined, Undefined>> }

\* A request body: the object with the fields of r and, when present is
\* true, the field k.
WithField(r, present, k, v) == IF present THEN r @@ (k :> v) ELSE r

AddBody(hasPid, t, hasQty, q) ==
    WithField(WithField(WithField(WithField(<<>>,
        hasPid, "productId", t[1]),
        t[2] # Undefined, "size", t[2]),
        t[3] # Undefined, "color", t[3]),
        hasQty, "quantity", q)

\* The bodies of POST /add: every triple without a quantity, the first triple
\* with quantity 1 and 2, and the bodies add rejects (no productId, quantity
\* zero, quantity negative).
FirstTriple == <<"P1", Undefined, Undefined>>

AddBodies ==
    { AddBody(TRUE, t, FALSE, 1) : t \in Triples }
    \cup { AddBody(TRUE, FirstTriple, TRUE, q) : q \in {-1, 0, 1, 2} }
    \cup { AddBody(FALSE, FirstTriple, TRUE, 1) }

\* The add requests: the main caller sends every body, every caller sends
\* the first triple.
AddRequests ==
    { <<MainCaller, body>> : body \in AddBodies }
    \cup { <<c, AddBody(TRUE, FirstTriple, FALSE, 1)>> : c \in Callers }

\* The bodies of PUT /update/:itemId: quantity absent, negative, zero, positive.
UpdateBody(hasQty, q) == WithField(<<>>, hasQty, "quantity", q)

\* x.k of a JavaScript object x: undefined when the field is absent.
Get(x, k) == IF k \in DOMAIN x THEN x[k] ELSE Undefined

\* ---------------------------------------------------------------- catalog
\* productService.getProductById is an external collaborator: a lookup
\* either fails or returns the product as the catalog currently has it.  The
\* catalog's data change over time: CatalogVersions are its states.
CatalogVersions == {"v1", "v2"}
LookupFails == "fails"
LookupOutcomes == CatalogVersions \cup {LookupFails}

CatalogPrice(productId, v) ==
    IF productId = "P1" THEN (IF v = "v1" THEN 3 ELSE 4)
                        ELSE (IF v = "v1" THEN 5 ELSE 7)

Product(productId, v) ==
    [ id        |-> productId,
      name      |-> IF v = "v1" THEN "name-" \o productId ELSE "renamed-" \o productId,
      brand     |-> "brand-" \o productId,
      price     |-> CatalogPrice(productId, v),
      image     |-> "image-" \o productId,
      thumbnail |-> "thumb-" \o productId,
      inStock   |-> (v = "v1"),
      stock     |-> IF v = "v1" THEN 10 ELSE 0 ]

\* ------------------------------------------------------------------ state
VARIABLES
    carts,     \* the object `carts`: identity -> cart, for the identities seen
    arrs,      \* the item arrays ever created: array -> sequence of objects
    objs,      \* the line objects ever created
    now,       \* the clock, in milliseconds
    pending,   \* the handlers awaiting a catalog lookup, oldest first
    last,      \* the response sent last
    nresp,     \* number of responses sent
    adds,      \* per identity: what the successful mutations so far were
    muts       \* per identity: how many successful mutations there were so far

vars == <<carts, arrs, objs, now, pending, last, nresp, adds, muts>>

\* --------------------------------------------------------- pure functions
\* Number.prototype.toString of a non-negative integer: its decimal digits.
Digit(d) == <<"0", "1", "2", "3", "4", "5", "6", "7", "8", "9">>[d + 1]

RECURSIVE NumberToString(_)
NumberToString(n) == IF n < 10 THEN Digit(n) ELSE NumberToString(n \div 10) \o Digit(n % 10)

\* The item ids the clients send to update and remove: the ids the clock
\* can have produced and one that no line has.
ItemIds == { NumberToString(t) : t \in 0..MaxClock } \cup {"nope"}

\* The update requests: the main caller sends every item id with a valid
\* quantity and the first id with an invalid one, every caller sends the
\* first id with a valid quantity.
UpdateRequests ==
    { <<MainCaller, itemId, UpdateBody(TRUE, 3)>> : itemId \in ItemIds }
    \cup { <<MainCaller, NumberToString(0), UpdateBody(TRUE, q)>> : q \in {-1, 0} }
    \cup { <<MainCaller, NumberToString(0), UpdateBody(FALSE, 0)>> }
    \cup { <<c, NumberToString(0), UpdateBody(TRUE, 3)>> : c \in Callers }

\* The remove requests: the main caller sends every item id, every caller
\* the first.
RemoveRequests ==
    { <<MainCaller, itemId>> : itemId \in ItemIds }
    \cup { <<c, NumberToString(0)>> : c \in Callers }

\* req.user?.id || req.body.userId || 'anonymous'
UserIdOf(authId, bodyUserId) ==
    IF authId # Undefined THEN authId
    ELSE IF bodyUserId # Undefined THEN bodyUserId
    ELSE "anonymous"

\* items.reduce((sum, item) => sum + item.subtotal, 0)
RECURSIVE ReduceTotal(_)
ReduceTotal(items) ==
    IF items = <<>> THEN 0
    ELSE ReduceTotal(SubSeq(items, 1, Len(items) - 1)) + items[Len(items)].subtotal

\* A reduce that counts the lines instead of adding their quantities.
RECURSIVE ReduceItemCountLines(_)
ReduceItemCountLines(items) ==
    IF items = <<>> THEN 0
    ELSE ReduceItemCountLines(SubSeq(items, 1, Len(items) - 1)) + 1

\* items.reduce((sum, item) => sum + item.quantity, 0)
RECURSIVE ReduceItemCount(_)
ReduceItemCount(items) ==
    IF items = <<>> THEN 0
    ELSE ReduceItemCount(SubSeq(items, 1, Len(items) - 1)) + items[Len(items)].quantity

\* A findIndex predicate that looks at the productId only.
SameLineByProductId(item, productId, size, color) ==
    item.productId = productId

\* A findIndex predicate that compares size with color and color with size.
SameLineSwapped(item, productId, size, color) ==
    /\ item.productId = productId
    /\ item.size = color
    /\ item.color = size

\* The predicate of add's findIndex.
SameLine(item, productId, size, color) ==
    /\ item.productId = productId
    /\ item.size = size
    /\ item.color = color

\* items.findIndex(pred): the first index (from 1) whose item satisfies the
\* predicate, 0 where JavaScript gives -1.
FirstIndex(S) == IF S = {} THEN 0 ELSE CHOOSE i \in S : \A j \in S : i <= j

FindLineIndex(items, productId, size, color) ==
    FirstIndex({ i \in 1..Len(items) : SameLine(items[i], productId, size, color) })

\* A lookup by id whose "not found" is taken for the last index (what
\* splice(-1, 1) and items.at(-1) would address).
FindItemIndexOrLast(items, itemId) ==
    IF \E i \in 1..Len(items) : items[i].id = itemId
    THEN FirstIndex({ i \in 1..Len(items) : items[i].id = itemId })
    ELSE Len(items)

\* items.findIndex(item => item.id === itemId)
FindItemIndex(items, itemId) ==
    FirstIndex({ i \in 1..Len(items) : items[i].id = itemId })

\* items.splice(index, 1)
Splice(s, index) == SubSeq(s, 1, index - 1) \o SubSeq(s, index + 1, Len(s))

\* --------------------------------------------------------- reading the heap
\* The line objects of an array, in order.
ItemsOf(a, as, os) == [ i \in 1..Len(as[a]) |-> os[as[a][i]] ]

\* The cart as JSON (res.json): the cart with its lines in place.
Serialize(cart, as, os) == [ cart EXCEPT !.items = ItemsOf(cart.items, as, os) ]

\* The stored cart of an identity, as a value.
Stored(u) == Serialize(carts[u], arrs, objs)

\* ------------------------------------------------------------- middleware
\* getOrCreateCart: a cart for userId is created when there is none.
NewCart(userId, t, a) ==
    [ id |-> userId, items |-> a, total |-> 0, itemCount |-> 0,
      createdAt |-> t, updatedAt |-> t ]

\* A middleware without the `if (!carts[userId])`: it creates a cart on
\* every request.
AlwaysCreateCart(userId) ==
    [ carts |-> [ u \in DOMAIN carts \cup {userId} |->
                    IF u = userId THEN NewCart(userId, now, Len(arrs) + 1)
                    ELSE carts[u] ],
      arrs |-> Append(arrs, <<>>) ]

\* A middleware whose new cart takes the items array of the first cart made
\* instead of an array of its own.
CreateCartSharingItems(userId) ==
    IF userId \in DOMAIN carts
    THEN [ carts |-> carts, arrs |-> arrs ]
    ELSE [ carts |-> carts @@ (userId :> NewCart(userId, now, 1)),
           arrs |-> Append(arrs, <<>>) ]

\* The carts and the arrays after the middleware ran for userId.
GetOrCreateCart(userId) ==
    IF userId \in DOMAIN carts
    THEN [ carts |-> carts, arrs |-> arrs ]
    ELSE [ carts |-> carts @@ (userId :> NewCart(userId, now, Len(arrs) + 1)),
           arrs |-> Append(arrs, <<>>) ]

\* -------------------------------------------------------------- responses
NoResponse == [ op |-> "none" ]

\* A response: the handler, the identity and the request it answers, the
\* outcome of the catalog lookup the handler awaited last (if any), the HTTP
\* status, the message and data.cart (or data.summary).
NoLookup == "none"

Response(op, userId, status, message, req, lookup, body) ==
    [ op |-> op, userId |-> userId, status |-> status, message |-> message,
      req |-> req, lookup |-> lookup, body |-> body ]

Issued == nresp + Len(pending)

\* --------------------------------------------------------------- history
\* What the successful add, update, remove and clear calls on an identity
\* were so far: none, adds of one (productId, size, color) only (with the sum
\* of their requested quantities), or anything else.
NoAdds == [ kind |-> "none" ]
OtherCalls == [ kind |-> "other" ]

AfterAdd(h, productId, size, color, quantity) ==
    IF h.kind = "none"
    THEN [ kind |-> "same", productId |-> productId, size |-> size,
           color |-> color, sum |-> quantity, calls |-> 1 ]
    ELSE IF h.kind = "same" /\ h.productId = productId /\ h.size = size
            /\ h.color = color
    THEN [ h EXCEPT !.sum = @ + quantity, !.calls = @ + 1 ]
    ELSE OtherCalls

HistoryOf(u) == IF u \in DOMAIN adds THEN adds[u] ELSE NoAdds

SetHistory(u, h) == [ x \in DOMAIN adds \cup {u} |-> IF x = u THEN h ELSE adds[x] ]

\* The number of successful add, update, remove and clear calls on an
\* identity so far.
MutsOf(u) == IF u \in DOMAIN muts THEN muts[u] ELSE 0

Mutated(u) == [ x \in DOMAIN muts \cup {u} |-> IF x = u THEN MutsOf(u) + 1 ELSE muts[x] ]

\* A server whose one thread is held by a handler that awaits its lookup.
ThreadHeldByLookup == pending = <<>>

\* The handlers share the one JavaScript thread.  A handler that awaits its
\* catalog lookup has yielded the thread, so between two steps the thread is
\* free whatever lookups are pending.
ThreadFree == TRUE

\* ------------------------------------------------------------------- init
Init ==
    /\ carts = <<>>
    /\ arrs = <<>>
    /\ objs = <<>>
    /\ now = 0
    /\ pending = <<>>
    /\ last = NoResponse
    /\ nresp = 0
    /\ adds = <<>>
    /\ muts = <<>>

\* ------------------------------------------------------------ the handlers
\* The clock advances.
Tick ==
    /\ now < MaxClock
    /\ now' = now + 1
    /\ UNCHANGED <<carts, arrs, objs, pending, last, nresp, adds, muts>>

\* A response is sent.
Respond(r) ==
    /\ last' = r
    /\ nresp' = nresp + 1

\* A check of the productId that never rejects.
ProductIdUnchecked(productId) == FALSE

\* !productId
MissingProductId(productId) == productId \in {Undefined, ""}

\* A check that lets quantity zero through.
QuantityNegative(quantity) == quantity < 0

\* quantity <= 0
QuantityNotPositive(quantity) == quantity <= 0

\* A destructuring without the default: an absent quantity counts as zero.
AddQuantityNoDefault(body) == IF "quantity" \in DOMAIN body THEN body.quantity ELSE 0

\* const { quantity = 1 } = req.body
AddQuantity(body) == IF "quantity" \in DOMAIN body THEN body.quantity ELSE 1

\* The new line object of add.
NewItem(productId, product, quantity, size, color, t) ==
    [ id        |-> NumberToString(t),
      productId |-> productId,
      name      |-> product.name,
      price     |-> product.price,
      image     |-> product.image,
      quantity  |-> quantity,
      size      |-> size,
      color     |-> color,
      subtotal  |-> product.price * quantity ]

\* A fold that assigns the requested quantity instead of adding it.
FoldedItemAssign(item, quantity) ==
    [ item EXCEPT !.quantity = quantity,
                  !.subtotal = quantity * item.price ]

\* add on an existing line: quantity += quantity; subtotal = quantity * price
FoldedItem(item, quantity) ==
    [ item EXCEPT !.quantity = item.quantity + quantity,
                  !.subtotal = (item.quantity + quantity) * item.price ]

\* An update that leaves the subtotal as it was.
UpdatedItemStaleSubtotal(item, quantity) ==
    [ item EXCEPT !.quantity = quantity ]

\* update: quantity = quantity; subtotal = price * quantity
UpdatedItem(item, quantity) ==
    [ item EXCEPT !.quantity = quantity, !.subtotal = item.price * quantity ]

\* "Update cart totals" of add, update and remove.
WithTotals(cart, items, t) ==
    [ cart EXCEPT !.total = ReduceTotal(items),
                  !.itemCount = ReduceItemCount(items),
                  !.updatedAt = t ]

\* POST /add up to the await of the catalog lookup.
AddBegin(authId, bodyUserId, body) ==
    LET userId == UserIdOf(authId, bodyUserId)
        productId == Get(body, "productId")
        quantity == AddQuantity(body)
    IN  /\ ThreadFree
        /\ Issued < MaxOps
        /\ carts' = GetOrCreateCart(userId).carts
        /\ arrs' = GetOrCreateCart(userId).arrs
        /\ UNCHANGED <<objs, now, adds, muts>>
        /\ IF MissingProductId(productId)
           THEN /\ Respond(Response("add", userId, 400, "Product ID is required", body, NoLookup, <<>>))
                /\ UNCHANGED pending
           ELSE IF QuantityNotPositive(quantity)
           THEN /\ Respond(Response("add", userId, 400, "Quantity must be greater than 0", body, NoLookup, <<>>))
                /\ UNCHANGED pending
           ELSE /\ Len(pending) < MaxPending
                /\ pending' = Append(pending,
                       [ kind |-> "add", userId |-> userId, body |-> body,
                         productId |-> productId, quantity |-> quantity,
                         size |-> Get(body, "size"), color |-> Get(body, "color") ])
                /\ UNCHANGED <<last, nresp>>

\* A catch that does not return: the handler goes on after a failed lookup.
LookupFailureIgnored(outcome) == FALSE

\* The catch of the try around the catalog lookup is taken.
LookupFailed(outcome) == outcome = LookupFails

\* An add that, on folding, refreshes the line's name and price from the
\* catalog's answer.
ObjsAfterAddRefreshed(r, product, existingItemIndex, a) ==
    IF existingItemIndex # 0
    THEN [ objs EXCEPT ![arrs[a][existingItemIndex]] =
             [ FoldedItem(@, r.quantity) EXCEPT
                 !.name = product.name,
                 !.price = product.price,
                 !.subtotal = product.price * (objs[arrs[a][existingItemIndex]].quantity + r.quantity) ] ]
    ELSE Append(objs, NewItem(r.productId, product, r.quantity, r.size, r.color, now))

\* The line objects after add's if/else on existingItemIndex.
ObjsAfterAdd(r, product, existingItemIndex, a) ==
    IF existingItemIndex # 0
    THEN [ objs EXCEPT ![arrs[a][existingItemIndex]] = FoldedItem(@, r.quantity) ]
    ELSE Append(objs, NewItem(r.productId, product, r.quantity, r.size, r.color, now))

\* The item arrays after add's if/else on existingItemIndex.
ArrsAfterAdd(existingItemIndex, a) ==
    IF existingItemIndex # 0 THEN arrs
    ELSE [ arrs EXCEPT ![a] = Append(@, Len(objs) + 1) ]

\* POST /add from the return of the catalog lookup to the response.
AddResume(i, outcome) ==
    /\ ThreadFree
    /\ i \in 1..Len(pending)
    /\ pending[i].kind = "add"
    /\ LET r == pending[i]
           a == carts[r.userId].items
           existingItemIndex ==
               FindLineIndex(ItemsOf(a, arrs, objs), r.productId, r.size, r.color)
       IN  /\ pending' = Splice(pending, i)
           /\ UNCHANGED now
           /\ IF LookupFailed(outcome)
              THEN /\ Respond(Response("add", r.userId, 404, "Product not found", r.body, outcome, <<>>))
                   /\ UNCHANGED <<carts, arrs, objs, adds, muts>>
              ELSE /\ objs' = ObjsAfterAdd(r, Product(r.productId, outcome), existingItemIndex, a)
                   /\ arrs' = ArrsAfterAdd(existingItemIndex, a)
                   /\ carts' = [ carts EXCEPT ![r.userId] =
                                   WithTotals(@, ItemsOf(a, arrs', objs'), now) ]
                   /\ muts' = Mutated(r.userId)
                   /\ adds' = SetHistory(r.userId,
                         AfterAdd(HistoryOf(r.userId), r.productId, r.size, r.color, r.quantity))
                   /\ Respond(Response("add", r.userId, 200, "Item added to cart successfully",
                                       r.body, outcome, Serialize(carts'[r.userId], arrs', objs')))

\* !quantity || quantity <= 0
UpdateQuantityInvalid(body) ==
    \/ "quantity" \notin DOMAIN body
    \/ body.quantity = 0
    \/ body.quantity <= 0

\* PUT /update/:itemId
Update(authId, bodyUserId, itemId, body) ==
    LET userId == UserIdOf(authId, bodyUserId)
        cs == GetOrCreateCart(userId).carts
        as == GetOrCreateCart(userId).arrs
        a == cs[userId].items
        itemIndex == FindItemIndex(ItemsOf(a, as, objs), itemId)
        req == body @@ ("itemId" :> itemId)
    IN  /\ ThreadFree
        /\ Issued < MaxOps
        /\ UNCHANGED <<now, pending>>
        /\ arrs' = as
        /\ IF UpdateQuantityInvalid(body)
           THEN /\ carts' = cs
                /\ UNCHANGED <<objs, adds, muts>>
                /\ Respond(Response("update", userId, 400, "Valid quantity is required", req, NoLookup, <<>>))
           ELSE IF itemIndex = 0
           THEN /\ carts' = cs
                /\ UNCHANGED <<objs, adds, muts>>
                /\ Respond(Response("update", userId, 404, "Item not found in cart", req, NoLookup, <<>>))
           ELSE /\ objs' = [ objs EXCEPT ![as[a][itemIndex]] = UpdatedItem(@, body.quantity) ]
                /\ carts' = [ cs EXCEPT ![userId] = WithTotals(@, ItemsOf(a, as, objs'), now) ]
                /\ muts' = Mutated(userId)
                /\ adds' = SetHistory(userId, OtherCalls)
                /\ Respond(Response("update", userId, 200, "Cart item updated successfully",
                                    req, NoLookup, Serialize(carts'[userId], arrs', objs')))

\* DELETE /remove/:itemId
Remove(authId, bodyUserId, itemId) ==
    LET userId == UserIdOf(authId, bodyUserId)
        cs == GetOrCreateCart(userId).carts
        as == GetOrCreateCart(userId).arrs
        a == cs[userId].items
        itemIndex == FindItemIndex(ItemsOf(a, as, objs), itemId)
        req == [ itemId |-> itemId ]
    IN  /\ ThreadFree
        /\ Issued < MaxOps
        /\ UNCHANGED <<now, pending, objs>>
        /\ IF itemIndex = 0
           THEN /\ carts' = cs
                /\ arrs' = as
                /\ UNCHANGED <<adds, muts>>
                /\ Respond(Response("remove", userId, 404, "Item not found in cart", req, NoLookup, <<>>))
           ELSE /\ arrs' = [ as EXCEPT ![a] = Splice(@, itemIndex) ]
                /\ carts' = [ cs EXCEPT ![userId] = WithTotals(@, ItemsOf(a, arrs', objs), now) ]
                /\ muts' = Mutated(userId)
                /\ adds' = SetHistory(userId, OtherCalls)
                /\ Respond(Response("remove", userId, 200, "Item removed from cart successfully",
                                    req, NoLookup, Serialize(carts'[userId], arrs', objs)))

\* A clear that leaves itemCount as it was.
ClearedCartKeepsCount(cart, a, t) ==
    [ cart EXCEPT !.items = a, !.total = 0, !.updatedAt = t ]

\* clear: items = []; total = 0; itemCount = 0; updatedAt = new Date()
ClearedCart(cart, a, t) ==
    [ cart EXCEPT !.items = a, !.total = 0, !.itemCount = 0, !.updatedAt = t ]

\* DELETE /clear
Clear(authId, bodyUserId) ==
    LET userId == UserIdOf(authId, bodyUserId)
        cs == GetOrCreateCart(userId).carts
        as == GetOrCreateCart(userId).arrs
    IN  /\ ThreadFree
        /\ Issued < MaxOps
        /\ UNCHANGED <<now, pending, objs>>
        /\ arrs' = Append(as, <<>>)
        /\ carts' = [ cs EXCEPT ![userId] = ClearedCart(@, Len(as) + 1, now) ]
        /\ muts' = Mutated(userId)
        /\ adds' = SetHistory(userId, OtherCalls)
        /\ Respond(Response("clear", userId, 200, "Cart cleared successfully",
                            <<>>, NoLookup, Serialize(carts'[userId], arrs', objs)))

\* The summary object of GET /summary.
SummaryOf(cart, as) ==
    [ itemCount |-> cart.itemCount, total |-> cart.total,
      itemTypes |-> Len(as[cart.items]) ]

\* GET /summary
Summary(authId, bodyUserId) ==
    LET userId == UserIdOf(authId, bodyUserId)
    IN  /\ ThreadFree
        /\ Issued < MaxOps
        /\ UNCHANGED <<now, pending, objs, adds, muts>>
        /\ carts' = GetOrCreateCart(userId).carts
        /\ arrs' = GetOrCreateCart(userId).arrs
        /\ Respond(Response("summary", userId, 200, "Cart summary retrieved successfully",
                            <<>>, NoLookup, SummaryOf(carts'[userId], arrs')))

\* The product projection view attaches to a line.
Projection(product) ==
    [ id |-> product.id, name |-> product.name, brand |-> product.brand,
      price |-> product.price, image |-> product.image,
      thumbnail |-> product.thumbnail, inStock |-> product.inStock,
      stock |-> product.stock ]

\* What view pushes for the line object o: a copy of the object as it is now
\* with the projection, or, when the lookup failed, the object itself.
ViewEntry(o, outcome) ==
    IF LookupFailed(outcome)
    THEN [ enriched |-> FALSE, obj |-> o ]
    ELSE [ enriched |-> TRUE,
           val |-> objs[o] @@ ("product" :> Projection(Product(objs[o].productId, outcome))) ]

\* A response that leaves out the lines whose lookup failed.
ViewBodyEnrichedOnly(snap, out, os) ==
    [ snap EXCEPT !.items =
        SelectSeq([ k \in 1..Len(out) |-> IF out[k].enriched THEN out[k].val ELSE os[out[k].obj] ],
                  LAMBDA x : "product" \in DOMAIN x) ]

\* res.json of cartWithProducts: the copies as they were taken, the pushed
\* objects as they are when the response is sent.
ViewBody(snap, out, os) ==
    [ snap EXCEPT !.items =
        [ k \in 1..Len(out) |-> IF out[k].enriched THEN out[k].val ELSE os[out[k].obj] ] ]

\* GET / up to the await of the first catalog lookup (or to the response,
\* when the cart has no line).
ViewBegin(authId, bodyUserId) ==
    LET userId == UserIdOf(authId, bodyUserId)
        cs == GetOrCreateCart(userId).carts
        as == GetOrCreateCart(userId).arrs
        a == cs[userId].items
        snap == [ cs[userId] EXCEPT !.items = <<>> ]
    IN  /\ ThreadFree
        /\ Issued < MaxOps
        /\ carts' = cs
        /\ arrs' = as
        /\ UNCHANGED <<objs, now, adds, muts>>
        /\ IF as[a] = <<>>
           THEN /\ Respond(Response("view", userId, 200, "Cart retrieved successfully",
                                    <<>>, NoLookup, ViewBody(snap, <<>>, objs)))
                /\ UNCHANGED pending
           ELSE /\ Len(pending) < MaxPending
                /\ pending' = Append(pending,
                       [ kind |-> "view", userId |-> userId, snap |-> snap,
                         arr |-> a, idx |-> 1, cur |-> as[a][1], out |-> <<>>,
                         muts |-> MutsOf(userId) ])
                /\ UNCHANGED <<last, nresp>>

\* GET / from the return of one catalog lookup to the await of the next (or
\* to the response, after the last line of the array).
ViewResume(i, outcome) ==
    /\ ThreadFree
    /\ i \in 1..Len(pending)
    /\ pending[i].kind = "view"
    /\ LET r == pending[i]
           out == Append(r.out, ViewEntry(r.cur, outcome))
       IN  /\ UNCHANGED <<carts, arrs, objs, now, adds, muts>>
           /\ IF r.idx + 1 <= Len(arrs[r.arr])
              THEN /\ pending' = [ pending EXCEPT ![i] =
                         [ r EXCEPT !.idx = r.idx + 1, !.cur = arrs[r.arr][r.idx + 1],
                                    !.out = out ] ]
                   /\ UNCHANGED <<last, nresp>>
              ELSE /\ pending' = Splice(pending, i)
                   /\ Respond(Response("view", r.userId, 200, "Cart retrieved successfully",
                                       <<>>, outcome, ViewBody(r.snap, out, objs)))

Next ==
    \/ Tick
    \/ \E r \in AddRequests : AddBegin(r[1][1], r[1][2], r[2])
    \/ \E i \in 1..MaxPending, outcome \in LookupOutcomes : AddResume(i, outcome)
    \/ \E r \in UpdateRequests : Update(r[1][1], r[1][2], r[2], r[3])
    \/ \E r \in RemoveRequests : Remove(r[1][1], r[1][2], r[2])
    \/ \E c \in Callers : Clear(c[1], c[2])
    \/ \E c \in Callers : Summary(c[1], c[2])
    \/ \E c \in Callers : ViewBegin(c[1], c[2])
    \/ \E i \in 1..MaxPending, outcome \in LookupOutcomes : ViewResume(i, outcome)

Spec == Init /\ [][Next]_vars

\* ----------------------------------------------------------- properties
\* The stored lines of an identity's cart.
Lines(u) == Stored(u).items

\* The sum of the subtotals, and of the quantities, of a sequence of lines.
RECURSIVE SumSubtotals(_)
SumSubtotals(lines) ==
    IF lines = <<>> THEN 0 ELSE Head(lines).subtotal + SumSubtotals(Tail(lines))

RECURSIVE SumQuantities(_)
SumQuantities(lines) ==
    IF lines = <<>> THEN 0 ELSE Head(lines).quantity + SumQuantities(Tail(lines))

\* C1: in every state, under every interleaving of the requests, the total
\* of every stored cart is the sum of the subtotals of its lines and its
\* itemCount the sum of their quantities.
C1_AggregatesExact ==
    \A u \in DOMAIN carts :
        /\ carts[u].total = SumSubtotals(Lines(u))
        /\ carts[u].itemCount = SumQuantities(Lines(u))

\* An add completed on a cart of two lines and more, while another request
\* on the same identity awaits its catalog lookup.
C1_Witness ==
    /\ last.op = "add" /\ last.status = 200
    /\ Len(Lines(last.userId)) >= 2
    /\ carts[last.userId].itemCount >= 3
    /\ \E i \in 1..Len(pending) : pending[i].userId = last.userId

\* C2: no cart ever has two lines with the same (productId, size, color),
\* also when two adds of one triple on one identity await their lookups at
\* the same time.
C2_NoDuplicateLines ==
    \A u \in DOMAIN carts :
        \A i, j \in 1..Len(Lines(u)) :
            ( /\ Lines(u)[i].productId = Lines(u)[j].productId
              /\ Lines(u)[i].size = Lines(u)[j].size
              /\ Lines(u)[i].color = Lines(u)[j].color ) => i = j

\* An add completed and wrote a line while a second add of the same triple
\* on the same identity, issued before, still awaits its lookup.
C2_Witness ==
    /\ last.op = "add" /\ last.status = 200
    /\ \E i \in 1..Len(pending) :
          /\ pending[i].kind = "add"
          /\ pending[i].userId = last.userId
          /\ pending[i].size = "M"
          /\ \E k \in 1..Len(Lines(last.userId)) :
                /\ Lines(last.userId)[k].productId = pending[i].productId
                /\ Lines(last.userId)[k].size = pending[i].size
                /\ Lines(last.userId)[k].color = pending[i].color

\* C3: when the successful mutations of an identity were adds of one
\* (productId, size, color) only, its cart has exactly one line, of that
\* triple, whose quantity is the sum of the requested quantities and whose
\* subtotal is its unit price times that sum.
C3_SameTripleAddsFold ==
    \A u \in DOMAIN adds :
        adds[u].kind = "same" =>
            /\ Len(Lines(u)) = 1
            /\ Lines(u)[1].productId = adds[u].productId
            /\ Lines(u)[1].size = adds[u].size
            /\ Lines(u)[1].color = adds[u].color
            /\ Lines(u)[1].quantity = adds[u].sum
            /\ Lines(u)[1].subtotal = Lines(u)[1].price * adds[u].sum

\* Three adds of one triple succeeded, with different quantities.
C3_Witness ==
    \E u \in DOMAIN adds :
        adds[u].kind = "same" /\ adds[u].calls = 3 /\ adds[u].sum > 3

\* C4: every line object created has an id different from that of every
\* other line object created, also within one clock millisecond.
C4_IdsUnique ==
    /\ \A i, j \in 1..Len(objs) : objs[i].id = objs[j].id => i = j
    /\ \A u \in DOMAIN carts :
          \A i, j \in 1..Len(Lines(u)) : Lines(u)[i].id = Lines(u)[j].id => i = j

\* C5: every stored line's subtotal is its stored unit price times its
\* quantity.
C5_SubtotalIsPriceTimesQuantity ==
    \A u \in DOMAIN carts :
        \A i \in 1..Len(Lines(u)) :
            Lines(u)[i].subtotal = Lines(u)[i].price * Lines(u)[i].quantity

\* An update set the quantity of a line to the one requested.
C5_Witness ==
    /\ last.op = "update" /\ last.status = 200
    /\ \E i \in 1..Len(Lines(last.userId)) :
          /\ Lines(last.userId)[i].id = last.req.itemId
          /\ Lines(last.userId)[i].quantity = last.req.quantity
          /\ Lines(last.userId)[i].subtotal > 0

\* The step sends a response.
Responds == nresp' = nresp + 1

\* The cart of identity u is after the step what it was before; where u had
\* no cart before, it has the empty cart the middleware creates.
CartUnchanged(u) ==
    IF u \in DOMAIN carts
    THEN Stored(u)' = Stored(u)
    ELSE /\ Stored(u)'.items = <<>>
         /\ Stored(u)'.total = 0
         /\ Stored(u)'.itemCount = 0

\* C6: every stored line has a quantity above zero, and an add or update
\* that carries a quantity of zero or below is answered with status 400.
C6_QuantityPositive ==
    /\ \A u \in DOMAIN carts :
          \A i \in 1..Len(Lines(u)) : Lines(u)[i].quantity > 0
    /\ ( /\ last.op \in {"add", "update"}
         /\ "quantity" \in DOMAIN last.req
         /\ last.req.quantity <= 0 ) => last.status = 400

\* An update with a quantity of zero or below was answered, on a cart that
\* has a line with the id the update names.
C6_Witness ==
    /\ last.op = "update"
    /\ "quantity" \in DOMAIN last.req
    /\ last.req.quantity <= 0
    /\ \E i \in 1..Len(Lines(last.userId)) : Lines(last.userId)[i].id = last.req.itemId

\* C7: an add without productId, or with a quantity of zero or below, is
\* answered with status 400 and leaves the cart of its identity as it was.
C7_InvalidAddRejected ==
    [][ ( /\ Responds
          /\ last'.op = "add"
          /\ \/ "productId" \notin DOMAIN last'.req
             \/ ( "quantity" \in DOMAIN last'.req /\ last'.req.quantity <= 0 ) )
        => ( /\ last'.status = 400
             /\ \A u \in DOMAIN carts' : u = last'.userId => CartUnchanged(u) ) ]_vars

\* An add without productId was answered on a cart that has lines.
C7_Witness ==
    /\ last.op = "add"
    /\ "productId" \notin DOMAIN last.req
    /\ Len(Lines(last.userId)) >= 1

\* The step is the first half of an add: a lookup is issued for it.
IssuesAddLookup ==
    /\ Len(pending') = Len(pending) + 1
    /\ pending'[Len(pending')].kind = "add"

\* C8: an add whose catalog lookup failed is answered with status 404 and
\* "Product not found" (not the 400 of an invalid input), and it leaves every
\* cart, line for line, as it was: neither the step that issues the lookup
\* nor the step that receives its failure changes a stored cart.
C8_LookupFailureAbortsAdd ==
    [][ /\ IssuesAddLookup =>
              \A u \in DOMAIN carts' :
                  u = pending'[Len(pending')].userId => CartUnchanged(u)
        /\ ( /\ Responds
             /\ last'.op = "add"
             /\ last'.lookup = LookupFails )
           => ( /\ last'.status = 404
                /\ last'.message = "Product not found"
                /\ \A u \in DOMAIN carts : Stored(u)' = Stored(u)
                /\ DOMAIN carts' = DOMAIN carts ) ]_vars

\* An add whose lookup failed was answered on a cart that has a line of the
\* add's (productId, size, color).
C8_Witness ==
    /\ last.op = "add"
    /\ last.lookup = LookupFails
    /\ \E i \in 1..Len(Lines(last.userId)) :
          /\ Lines(last.userId)[i].productId = Get(last.req, "productId")
          /\ Lines(last.userId)[i].size = Get(last.req, "size")
          /\ Lines(last.userId)[i].color = Get(last.req, "color")

\* No line of the cart of u has the id itemId.
NoLineWithId(u, itemId) ==
    u \in DOMAIN carts => \A i \in 1..Len(Lines(u)) : Lines(u)[i].id # itemId

\* C9: an update with a valid quantity, or a remove, that names an id no
\* line of the identity's cart has is answered with status 404 and "Item not
\* found in cart", and leaves the cart as it was.
C9_UnknownItemRejected ==
    [][ ( /\ Responds
          /\ \/ last'.op = "remove"
             \/ ( /\ last'.op = "update"
                  /\ "quantity" \in DOMAIN last'.req
                  /\ last'.req.quantity > 0 )
          /\ \A u \in DOMAIN carts' : u = last'.userId =>
                \A itemId \in ItemIds : itemId = last'.req.itemId => NoLineWithId(u, itemId) )
        => ( /\ last'.status = 404
             /\ last'.message = "Item not found in cart"
             /\ \A u \in DOMAIN carts' : u = last'.userId => CartUnchanged(u) ) ]_vars

\* A remove that names an id no line has was answered on a cart that has
\* lines.
C9_Witness ==
    /\ last.op = "remove"
    /\ last.status = 404
    /\ Len(Lines(last.userId)) >= 1

\* The step is a step of view.
ViewStep ==
    \/ \E c \in Callers : ViewBegin(c[1], c[2])
    \/ \E i \in 1..MaxPending, outcome \in LookupOutcomes : ViewResume(i, outcome)

\* C10: no step of view, whatever the outcome of its catalog lookup, changes
\* a stored cart: the lines with their price, quantity and subtotal, the
\* total and the itemCount are after the step what they were before.
C10_ViewReadsOnly ==
    [][ ViewStep =>
          /\ \A u \in DOMAIN carts : Stored(u)' = Stored(u)
          /\ \A u \in DOMAIN carts' \ DOMAIN carts : Stored(u)'.items = <<>> ]_vars

\* A view of a cart with lines was answered after a lookup that returned the
\* catalog's second version, whose price differs from the stored one.
C10_Witness ==
    /\ last.op = "view"
    /\ last.lookup = "v2"
    /\ \E i \in 1..Len(Lines(last.userId)) :
          Lines(last.userId)[i].price # CatalogPrice(Lines(last.userId)[i].productId, "v2")

\* A returned line carries a product projection.
HasProduct(x) == "product" \in DOMAIN x

\* A returned line without its product projection.
WithoutProduct(x) == [ k \in DOMAIN x \ {"product"} |-> x[k] ]

\* C11: view always answers with status 200.  Each catalog lookup decides
\* the line it was made for only: the line is returned with a product
\* projection when the lookup succeeded and without one when it failed.  A
\* view during which no mutation of the cart completed returns every stored
\* line, in stored order.
C11_ViewDegradesPerLine ==
    [][ /\ ( Responds /\ last'.op = "view" ) => last'.status = 200
        /\ \A i \in 1..MaxPending, outcome \in LookupOutcomes :
              ViewResume(i, outcome) =>
                 LET r == pending[i]
                     n == Len(r.out) + 1
                 IN  IF Responds
                     THEN /\ Len(last'.body.items) = n
                          /\ HasProduct(last'.body.items[n]) <=> outcome # LookupFails
                          /\ \A k \in 1..(n - 1) :
                                HasProduct(last'.body.items[k]) <=> r.out[k].enriched
                          /\ r.muts = MutsOf(r.userId) =>
                                /\ n = Len(Lines(r.userId))
                                /\ \A k \in 1..n :
                                      /\ WithoutProduct(last'.body.items[k]) = Lines(r.userId)[k]
                                      /\ HasProduct(last'.body.items[k]) =>
                                            last'.body.items[k].product.id
                                                = Lines(r.userId)[k].productId
                     ELSE /\ Len(pending'[i].out) = n
                          /\ pending'[i].out[n].enriched <=> outcome # LookupFails
                          /\ SubSeq(pending'[i].out, 1, n - 1) = r.out ]_vars

\* A view of a cart of two lines was answered: the lookup of the first line
\* had failed, that of the second had succeeded.
C11_Witness ==
    /\ last.op = "view"
    /\ Len(last.body.items) = 2
    /\ ~HasProduct(last.body.items[1])
    /\ HasProduct(last.body.items[2])
    /\ Len(Lines(last.userId)) = 2

\* C12: clear is answered with status 200 and leaves the cart of its
\* identity with no line, total 0 and itemCount 0; a summary answered next
\* for the same identity returns itemCount 0, total 0 and 0 distinct lines.
C12_ClearThenSummary ==
    [][ /\ ( Responds /\ last'.op = "clear" ) =>
              /\ last'.status = 200
              /\ \A u \in DOMAIN carts' : u = last'.userId =>
                    /\ Stored(u)'.items = <<>>
                    /\ Stored(u)'.total = 0
                    /\ Stored(u)'.itemCount = 0
        /\ ( /\ last.op = "clear"
             /\ Responds
             /\ last'.op = "summary"
             /\ last'.userId = last.userId ) =>
              /\ last'.status = 200
              /\ last'.body = [ itemCount |-> 0, total |-> 0, itemTypes |-> 0 ] ]_vars

\* A summary was answered for the one identity there is, after a clear of
\* its cart, which had a line (the array the clear replaced is not empty).
C12_Witness ==
    /\ last.op = "summary"
    /\ DOMAIN carts = {last.userId}
    /\ nresp = 3
    /\ \E a \in 1..Len(arrs) : a # carts[last.userId].items /\ arrs[a] # <<>>
    /\ last.body.itemTypes = 0

\* The line has the (productId, size, color) of the add request req.
HasTripleOf(line, req) ==
    /\ line.productId = Get(req, "productId")
    /\ line.size = Get(req, "size")
    /\ line.color = Get(req, "color")

\* C13: a successful add whose (productId, size, color) no line of the cart
\* has appends one line, of that triple, at the end of the item sequence and
\* leaves every line that was there as it was, also when a line of the same
\* productId exists.
C13_NewTripleAppends ==
    [][ \A u \in DOMAIN carts :
          ( /\ Responds
            /\ last'.op = "add"
            /\ last'.status = 200
            /\ last'.userId = u
            /\ \A k \in 1..Len(Lines(u)) : ~HasTripleOf(Lines(u)[k], last'.req) )
          => ( /\ Len(Lines(u)') = Len(Lines(u)) + 1
               /\ SubSeq(Lines(u)', 1, Len(Lines(u))) = Lines(u)
               /\ HasTripleOf(Lines(u)'[Len(Lines(u)')], last'.req) ) ]_vars

\* An add just appended a second line whose productId is that of the first
\* line and whose size differs.
C13_Witness ==
    /\ last.op = "add" /\ last.status = 200
    /\ Len(Lines(last.userId)) = 2
    /\ HasTripleOf(Lines(last.userId)[2], last.req)
    /\ Lines(last.userId)[2].quantity = AddQuantity(last.req)
    /\ Lines(last.userId)[1].productId = Lines(last.userId)[2].productId
    /\ Lines(last.userId)[1].size # Lines(last.userId)[2].size

\* C14: a successful remove by itemId deletes exactly one line, afterwards no
\* line of the cart has that itemId, and the other lines are retained
\* unchanged in their order.
C14_RemoveDeletesTheLine ==
    [][ \A u \in DOMAIN carts, itemId \in ItemIds :
          ( /\ Responds
            /\ last'.op = "remove"
            /\ last'.status = 200
            /\ last'.userId = u
            /\ last'.req.itemId = itemId )
          => ( /\ \E k \in 1..Len(Lines(u)) : Lines(u)' = Splice(Lines(u), k)
               /\ \A k \in 1..Len(Lines(u)') : Lines(u)'[k].id # itemId ) ]_vars

\* C15: the name and the price stored in a line object never change once the
\* line is created, whatever step is taken, and the subtotal a step leaves
\* in a line is the line's price before the step times its quantity; so a
\* fold under a different catalog price keeps the stored price.
C15_NameAndPriceFixed ==
    [][ /\ Len(objs') >= Len(objs)
        /\ \A o \in 1..Len(objs) :
              /\ objs'[o].name = objs[o].name
              /\ objs'[o].price = objs[o].price
              /\ objs'[o].subtotal = objs[o].price * objs'[o].quantity ]_vars

\* An add folded into a line while the catalog answered with a name and a
\* price other than the ones the line stores.
C15_Witness ==
    /\ last.op = "add" /\ last.status = 200
    /\ last.lookup = "v2"
    /\ \E k \in 1..Len(Lines(last.userId)) :
          LET line == Lines(last.userId)[k]
          IN  /\ HasTripleOf(line, last.req)
              /\ line.quantity > AddQuantity(last.req)
              /\ line.price = CatalogPrice(line.productId, "v1")
              /\ line.price # Product(line.productId, last.lookup).price
              /\ line.name # Product(line.productId, last.lookup).name
              /\ line.subtotal = line.price * line.quantity

\* C16: a cart that exists stays in the store under its own id and creation
\* time, and it changes only in a step that answers a request of its own
\* identity: no step taken for another identity, answered with success or
\* with an error, begun or resumed, and no creation of another cart alters it.
C16_CartsDoNotInteract ==
    [][ \A b \in DOMAIN carts :
          /\ b \in DOMAIN carts'
          /\ carts'[b].id = b
          /\ carts'[b].createdAt = carts[b].createdAt
          /\ ( Responds /\ last'.userId = b ) \/ Stored(b)' = Stored(b) ]_vars

\* An add for one identity created that identity's cart and put its first
\* line in it while the cart of another identity holds a line.
C16_Witness ==
    /\ last.op = "add" /\ last.status = 200
    /\ MutsOf(last.userId) = 1
    /\ Len(Lines(last.userId)) = 1
    /\ \E b \in DOMAIN carts :
          /\ b # last.userId
          /\ Len(Lines(b)) = 1
          /\ carts[b].items # carts[last.userId].items

\* C17: the cart a view returns is a cart of one instant: its total is the
\* sum of the subtotals of the lines it returns and its itemCount the sum of
\* their quantities, also when a mutation of the same identity completed
\* while the view awaited a lookup.
C17_ViewIsOneInstant ==
    ( last.op = "view" /\ last.status = 200 )
    => /\ last.body.total = SumSubtotals(last.body.items)
       /\ last.body.itemCount = SumQuantities(last.body.items)

\* Every handler that needs no lookup can run now.
SyncHandlersCanRun ==
    /\ \A r \in UpdateRequests : ENABLED Update(r[1][1], r[1][2], r[2], r[3])
    /\ \A r \in RemoveRequests : ENABLED Remove(r[1][1], r[1][2], r[2])
    /\ \A c \in Callers : ENABLED Clear(c[1], c[2])
    /\ \A c \in Callers : ENABLED Summary(c[1], c[2])

\* Every add and every view can start now.
LookupHandlersCanStart ==
    /\ \A r \in AddRequests : ENABLED AddBegin(r[1][1], r[1][2], r[2])
    /\ \A c \in Callers : ENABLED ViewBegin(c[1], c[2])

\* Every request that awaits a lookup can go on as soon as its own lookup
\* returns, whatever the other lookups do.
EachPendingCanResume ==
    \A i \in 1..Len(pending), outcome \in LookupOutcomes :
        IF pending[i].kind = "add"
        THEN ENABLED AddResume(i, outcome)
        ELSE ENABLED ViewResume(i, outcome)

\* The response of the step is the one its handler gives on the cart as it
\* is stored: a successful update, remove or clear returns the stored cart
\* it leaves, a summary the stored aggregates and the number of lines.
NormalResult ==
    \A u \in DOMAIN carts' : u = last'.userId =>
        /\ ( last'.op \in {"update", "remove", "clear"} /\ last'.status = 200 )
              => last'.body = Stored(u)'
        /\ last'.op = "summary"
              => last'.body = [ itemCount |-> SumQuantities(Lines(u)'),
                                total |-> SumSubtotals(Lines(u)'),
                                itemTypes |-> Len(Lines(u)') ]

\* C18: while requests await catalog lookups that have not returned, every
\* handler that needs no lookup can still run, an add or a view can still
\* start, each awaiting request can resume on its own lookup; a request
\* answered meanwhile gets its normal result and leaves the awaiting
\* requests as they are, and an add that awaits its lookup has not changed
\* the cart.
C18_HungLookupStallsOnlyItself ==
    [][ /\ ( pending # <<>> /\ Issued < MaxOps ) => SyncHandlersCanRun
        /\ ( pending # <<>> /\ Issued < MaxOps /\ Len(pending) < MaxPending )
              => LookupHandlersCanStart
        /\ EachPendingCanResume
        /\ ( pending # <<>> /\ Responds /\ Len(pending') = Len(pending) )
              => ( NormalResult /\ pending' = pending )
        /\ IssuesAddLookup =>
              \A u \in DOMAIN carts' :
                  u = pending'[Len(pending')].userId => CartUnchanged(u) ]_vars

\* An add created the cart of its identity and awaits its lookup; one
\* millisecond later a clear of the same identity was answered, the only
\* response so far.
C18_Witness ==
    /\ Len(pending) = 1
    /\ pending[1].kind = "add"
    /\ nresp = 1
    /\ last.op = "clear" /\ last.status = 200
    /\ last.userId = pending[1].userId
    /\ carts[last.userId].createdAt < carts[last.userId].updatedAt
    /\ last.body = Stored(last.userId)

\* C19: a successful update by itemId with quantity q leaves the line with
\* that itemId with quantity exactly q and subtotal price times q, and every
\* other line, and the order of the lines, as they were.
C19_UpdateSetsTheLine ==
    [][ \A u \in DOMAIN carts, itemId \in ItemIds :
          ( /\ Responds
            /\ last'.op = "update"
            /\ last'.status = 200
            /\ last'.userId = u
            /\ last'.req.itemId = itemId )
          => ( /\ Len(Lines(u)') = Len(Lines(u))
               /\ \A k \in 1..Len(Lines(u)) :
                     IF Lines(u)[k].id = itemId
                     THEN Lines(u)'[k] =
                            [ Lines(u)[k] EXCEPT
                                !.quantity = last'.req.quantity,
                                !.subtotal = Lines(u)[k].price * last'.req.quantity ]
                     ELSE Lines(u)'[k] = Lines(u)[k] ) ]_vars

\* C20: an add that carries a productId and no quantity is not answered
\* with status 400; when it succeeds it has added 1 to the quantity of the
\* line of its (productId, size, color), or appended a line of quantity 1
\* where there was none, as an add with quantity 1 does.  An update that
\* carries no quantity is answered with status 400 and changes nothing.
C20_AddDefaultsToOne ==
    [][ /\ \A u \in DOMAIN carts :
              ( /\ Responds
                /\ last'.op = "add"
                /\ last'.userId = u
                /\ "productId" \in DOMAIN last'.req
                /\ "quantity" \notin DOMAIN last'.req )
              => /\ last'.status # 400
                 /\ last'.status = 200 =>
                       IF \E k \in 1..Len(Lines(u)) : HasTripleOf(Lines(u)[k], last'.req)
                       THEN /\ Len(Lines(u)') = Len(Lines(u))
                            /\ \A k \in 1..Len(Lines(u)) :
                                  Lines(u)'[k].quantity =
                                     IF HasTripleOf(Lines(u)[k], last'.req)
                                     THEN Lines(u)[k].quantity + 1
                                     ELSE Lines(u)[k].quantity
                       ELSE /\ Len(Lines(u)') = Len(Lines(u)) + 1
                            /\ Lines(u)'[Len(Lines(u)')].quantity = 1
        /\ ( /\ Responds
             /\ last'.op = "update"
             /\ "quantity" \notin DOMAIN last'.req )
           => /\ last'.status = 400
              /\ \A u \in DOMAIN carts' : u = last'.userId => CartUnchanged(u) ]_vars

\* An add without quantity was answered with success on a cart whose line
\* of the add's triple had quantity 2: the line now has quantity 3.
C20_Witness ==
    /\ last.op = "add" /\ last.status = 200
    /\ "quantity" \notin DOMAIN last.req
    /\ \E k \in 1..Len(Lines(last.userId)) :
          /\ HasTripleOf(Lines(last.userId)[k], last.req)
          /\ Lines(last.userId)[k].quantity = 3
    /\ \E u \in DOMAIN adds :
          /\ u = last.userId
          /\ adds[u].kind = "same" /\ adds[u].calls = 2

====
